---- MODULE Spec2Model ----
(***************************************************************************)
(* Isolation on a small grid: the GameState class (board, active player,   *)
(* player locations, legal-move generation, forecast_move) and the         *)
(* depth-limited minimax search built on it (terminal_test, min_value,     *)
(* max_value, minimax_decision) of gamestate.py.                           *)
(*                                                                         *)
(* A driver holds one GameState and calls the operations on it; a          *)
(* successful forecast_move replaces the held state by the returned one,   *)
(* so the held state ranges over every state reachable from the initial    *)
(* state.  The last call (operation, arguments, the object it was called   *)
(* on before and after, outcome) is recorded, and so are, for the line of  *)
(* play that led to the held state, the cells the players have occupied    *)
(* and the number of moves each has made.                                  *)
(***************************************************************************)
EXTENDS Integers, Sequences, FiniteSets, TLC

\* board dimensions (xlim, ylim = 3, 2)
xlim == 3
ylim == 2

\* float("inf"): greater than every value the search computes
inf == 1000

\* search depths the driver passes are -MaxNegDepth .. MaxDepth
MaxDepth == 6
MaxNegDepth == 2

\* Python's None; like None it is falsy (the empty tuple)
None == <<>>

VARIABLES
    board,             \* _board of the held GameState: board[x][y], 0 open, 1 closed
    active_player,     \* active_player of the held GameState
    player_locations,  \* _player_locations of the held GameState, indexed 0 and 1
    op,                \* name of the last operation called ("__init__" at start)
    arg_move,          \* its move argument (None when it takes none)
    arg_depth,         \* its depth argument (0 when it takes none)
    pre,               \* the GameState it was called on, as it was before the call
    self_after,        \* that same GameState object as it is after the call
    ret,               \* what the call returned (None when it raised)
    raised,            \* TRUE when the call raised RuntimeError
    occupied,          \* the cells a player has been moved to on this line of play
    moves_made         \* per player, the moves it has made on this line of play

vars == <<board, active_player, player_locations, op, arg_move, arg_depth,
          pre, self_after, ret, raised, occupied, moves_made>>

Cols == 0 .. (xlim - 1)
Rows == 0 .. (ylim - 1)

\* the held GameState as one value
cur == [board |-> board, active_player |-> active_player,
        player_locations |-> player_locations]

\* ------------------------------------------------------------------------
\* Sequence helpers

Range(seq) == { seq[i] : i \in 1 .. Len(seq) }

\* Python's `x in list`
In(x, seq) == \E i \in 1 .. Len(seq) : seq[i] = x

RECURSIVE Flatten(_)
Flatten(seqs) ==
    IF seqs = <<>> THEN <<>> ELSE Head(seqs) \o Flatten(Tail(seqs))

\* ------------------------------------------------------------------------
\* GameState

\* GameState.__init__: empty board with the lower-right corner blocked
NewGameState ==
    [board |-> [x \in Cols |-> [y \in Rows |->
                    IF x = xlim - 1 /\ y = ylim - 1 THEN 1 ELSE 0]],
     active_player |-> 0,
     player_locations |-> [p \in {0, 1} |-> None]]

\* _get_blank_spaces with the loops exchanged: x outer, y inner
_get_blank_spaces_ColumnMajor(s) ==
    Flatten([xx \in 1 .. xlim |->
        Flatten([yy \in 1 .. ylim |->
            IF s.board[xx - 1][yy - 1] = 0
            THEN << <<xx - 1, yy - 1>> >> ELSE <<>>])])

\* _get_blank_spaces without the `== 0` filter: every cell is listed
_get_blank_spaces_NoFilter(s) ==
    Flatten([yy \in 1 .. ylim |->
        [xx \in 1 .. xlim |-> <<xx - 1, yy - 1>>]])

\* GameState._get_blank_spaces: y is the outer loop, x the inner one
_get_blank_spaces(s) ==
    Flatten([yy \in 1 .. ylim |->
        Flatten([xx \in 1 .. xlim |->
            IF s.board[xx - 1][yy - 1] = 0
            THEN << <<xx - 1, yy - 1>> >> ELSE <<>>])])

\* the relative moves, in the order the code lists them
rays == << <<1, 0>>, <<1, -1>>, <<0, -1>>, <<-1, -1>>,
           <<-1, 0>>, <<-1, 1>>, <<0, 1>>, <<1, 1>> >>

\* the loop condition of the walk along one ray
OnBoard(x, y) == 0 <= x /\ x < xlim /\ 0 <= y /\ y < ylim

\* the test that ends the walk along one ray
Closed(s, x, y) == s.board[x][y] # 0

\* WalkRay with `continue` for `break`: the walk passes over closed cells
RECURSIVE WalkRay_Continue(_, _, _, _, _)
WalkRay_Continue(s, x, y, dx, dy) ==
    IF OnBoard(x + dx, y + dy)
    THEN IF Closed(s, x + dx, y + dy)
         THEN WalkRay_Continue(s, x + dx, y + dy, dx, dy)
         ELSE << <<x + dx, y + dy>> >> \o WalkRay_Continue(s, x + dx, y + dy, dx, dy)
    ELSE <<>>

\* the while loop of get_legal_moves: the cells appended walking from (x, y)
\* in direction (dx, dy)
RECURSIVE WalkRay(_, _, _, _, _)
WalkRay(s, x, y, dx, dy) ==
    IF OnBoard(x + dx, y + dy)
    THEN IF Closed(s, x + dx, y + dy)
         THEN <<>>
         ELSE << <<x + dx, y + dy>> >> \o WalkRay(s, x + dx, y + dy, dx, dy)
    ELSE <<>>

\* `if not current_location`
Unplaced(current_location) == current_location = None

\* GameState.get_legal_moves
get_legal_moves(s) ==
    LET current_location == s.player_locations[s.active_player]
    IN  IF Unplaced(current_location)
        THEN _get_blank_spaces(s)
        ELSE Flatten([i \in 1 .. Len(rays) |->
                 WalkRay(s, current_location[1], current_location[2],
                         rays[i][1], rays[i][2])])

\* the guard testing only that the cell is on the board and open
IllegalMove_OpenOnly(s, move) ==
    ~ (OnBoard(move[1], move[2]) /\ ~ Closed(s, move[1], move[2]))

\* the guard of forecast_move: `move not in self.get_legal_moves()`
IllegalMove(s, move) == ~ In(move, get_legal_moves(s))

\* `newBoard.active_player ^= 1`
Flip(p) == IF p = 0 THEN 1 ELSE 0

\* forecast_move recording the move after the turn has passed: the location
\* is stored in the slot of the new active player
forecast_move_FlipFirst(s, move) ==
    [board |-> [s.board EXCEPT ![move[1]][move[2]] = 1],
     player_locations |->
         [s.player_locations EXCEPT ![Flip(s.active_player)] = move],
     active_player |-> Flip(s.active_player)]

\* forecast_move without `newBoard._board[move[0]][move[1]] = 1`
forecast_move_NoBlock(s, move) ==
    [board |-> s.board,
     player_locations |-> [s.player_locations EXCEPT ![s.active_player] = move],
     active_player |-> Flip(s.active_player)]

\* forecast_move reopening the cell the mover leaves
forecast_move_FreesOldCell(s, move) ==
    LET old == s.player_locations[s.active_player]
        b == IF old = None THEN s.board
             ELSE [s.board EXCEPT ![old[1]][old[2]] = 0]
    IN  [board |-> [b EXCEPT ![move[1]][move[2]] = 1],
         player_locations |-> [s.player_locations EXCEPT ![s.active_player] = move],
         active_player |-> Flip(s.active_player)]

\* the body of forecast_move after the guard: the copy with the move applied
forecast_move(s, move) ==
    [board |-> [s.board EXCEPT ![move[1]][move[2]] = 1],
     player_locations |-> [s.player_locations EXCEPT ![s.active_player] = move],
     active_player |-> Flip(s.active_player)]

\* forecast_move without the deepcopy: newBoard is the receiver itself
SelfAfterForecast_NoCopy(s, move) ==
    [board |-> [s.board EXCEPT ![move[1]][move[2]] = 1],
     player_locations |-> [s.player_locations EXCEPT ![s.active_player] = move],
     active_player |-> Flip(s.active_player)]

\* what forecast_move leaves of the object it is called on (deepcopy: untouched)
SelfAfterForecast(s, move) == s

\* ------------------------------------------------------------------------
\* Search

\* terminal_test without the `not`
terminal_test_NoNot(s) == get_legal_moves(s) # <<>>

\* terminal_test: `not bool(gameState.get_legal_moves())`
terminal_test(s) == get_legal_moves(s) = <<>>

Min(a, b) == IF b < a THEN b ELSE a
Max(a, b) == IF b > a THEN b ELSE a

\* the cutoff one ply early
Cutoff_OneEarly(depth) == depth <= 1

\* `if depth <= 0`
Cutoff(depth) == depth <= 0

RECURSIVE min_value(_, _), max_value(_, _), MinLoop(_, _, _, _), MaxLoop(_, _, _, _)

\* the for loop of min_value, from the i-th legal move on, v the value so far
MinLoop(s, depth, i, v) ==
    LET moves == get_legal_moves(s)
    IN  IF i > Len(moves) THEN v
        ELSE MinLoop(s, depth, i + 1,
                     Min(v, max_value(forecast_move(s, moves[i]), depth - 1)))

\* the for loop of max_value
MaxLoop(s, depth, i, v) ==
    LET moves == get_legal_moves(s)
    IN  IF i > Len(moves) THEN v
        ELSE MaxLoop(s, depth, i + 1,
                     Max(v, min_value(forecast_move(s, moves[i]), depth - 1)))

\* min_value without the terminal test
min_value_NoTerminalTest(s, depth) ==
    IF Cutoff(depth) THEN 0
    ELSE MinLoop(s, depth, 1, inf)

\* min_value testing the depth before the terminal test
min_value_CutoffFirst(s, depth) ==
    IF Cutoff(depth) THEN 0
    ELSE IF terminal_test(s) THEN 1
    ELSE MinLoop(s, depth, 1, inf)

min_value(s, depth) ==
    IF terminal_test(s) THEN 1
    ELSE IF Cutoff(depth) THEN 0
    ELSE MinLoop(s, depth, 1, inf)

\* max_value testing the depth before the terminal test
max_value_CutoffFirst(s, depth) ==
    IF Cutoff(depth) THEN 0
    ELSE IF terminal_test(s) THEN -1
    ELSE MaxLoop(s, depth, 1, -inf)

\* max_value returning 1 at the cutoff
max_value_CutoffReturnsOne(s, depth) ==
    IF terminal_test(s) THEN -1
    ELSE IF Cutoff(depth) THEN 1
    ELSE MaxLoop(s, depth, 1, -inf)

max_value(s, depth) ==
    IF terminal_test(s) THEN -1
    ELSE IF Cutoff(depth) THEN 0
    ELSE MaxLoop(s, depth, 1, -inf)

\* the comparison with `>=`: a later move of equal value replaces the kept one
Better_OrEqual(v, best_score) == v >= best_score

\* `if v > best_score`
Better(v, best_score) == v > best_score

\* the for loop of minimax_decision, from the i-th legal move on
RECURSIVE DecisionLoop(_, _, _, _, _)
DecisionLoop(s, depth, i, best_score, best_move) ==
    LET moves == get_legal_moves(s)
    IN  IF i > Len(moves) THEN best_move
        ELSE LET v == min_value(forecast_move(s, moves[i]), depth - 1)
             IN  IF Better(v, best_score)
                 THEN DecisionLoop(s, depth, i + 1, v, moves[i])
                 ELSE DecisionLoop(s, depth, i + 1, best_score, best_move)

\* minimax_decision starting from the pair (-1, -1) as "no move yet"
minimax_decision_PairSentinel(s, depth) ==
    DecisionLoop(s, depth, 1, -inf, <<-1, -1>>)

minimax_decision(s, depth) == DecisionLoop(s, depth, 1, -inf, None)

\* the receiver after a loop `for move in gameState.get_legal_moves()` that
\* calls gameState.forecast_move(move) for each move, from the i-th on
RECURSIVE SelfAfterLoop(_, _, _)
SelfAfterLoop(s, moves, i) ==
    IF i > Len(moves) THEN s
    ELSE SelfAfterLoop(SelfAfterForecast(s, moves[i]), moves, i + 1)

\* the receiver after min_value or max_value: untouched by the two early
\* returns, else what the loop leaves
SelfAfterValue(s, depth) ==
    IF terminal_test(s) \/ Cutoff(depth) THEN s
    ELSE SelfAfterLoop(s, get_legal_moves(s), 1)

\* the receiver after minimax_decision
SelfAfterDecision(s, depth) == SelfAfterLoop(s, get_legal_moves(s), 1)

\* ------------------------------------------------------------------------
\* The driver

\* the coordinate pairs the driver tries: the board and a margin around it
Coords == ((-1) .. xlim) \X ((-1) .. ylim)

Depths == (-MaxNegDepth) .. MaxDepth

Init ==
    /\ board = NewGameState.board
    /\ active_player = NewGameState.active_player
    /\ player_locations = NewGameState.player_locations
    /\ op = "__init__"
    /\ arg_move = None
    /\ arg_depth = 0
    /\ pre = NewGameState
    /\ self_after = NewGameState
    /\ ret = None
    /\ raised = FALSE
    /\ occupied = {}
    /\ moves_made = [p \in {0, 1} |-> 0]

\* a call that returns `r`, leaves the receiver as `after` and does not
\* change which state the driver holds
Query(name, move, depth, r, after) ==
    /\ op' = name
    /\ arg_move' = move
    /\ arg_depth' = depth
    /\ pre' = cur
    /\ self_after' = after
    /\ ret' = r
    /\ raised' = FALSE
    /\ UNCHANGED <<board, active_player, player_locations, occupied, moves_made>>

GetLegalMoves == Query("get_legal_moves", None, 0, get_legal_moves(cur), cur)

TerminalTest == Query("terminal_test", None, 0, terminal_test(cur), cur)

MinValue ==
    \E depth \in Depths :
        Query("min_value", None, depth, min_value(cur, depth),
              SelfAfterValue(cur, depth))

MaxValue ==
    \E depth \in Depths :
        Query("max_value", None, depth, max_value(cur, depth),
              SelfAfterValue(cur, depth))

MinimaxDecision ==
    \E depth \in Depths :
        Query("minimax_decision", None, depth, minimax_decision(cur, depth),
              SelfAfterDecision(cur, depth))

\* forecast_move: raises on a move that is not legal, else returns the new
\* state, which the driver then holds
ForecastMove ==
    \E move \in Coords :
        /\ op' = "forecast_move"
        /\ arg_move' = move
        /\ arg_depth' = 0
        /\ pre' = cur
        /\ IF IllegalMove(cur, move)
           THEN /\ raised' = TRUE
                /\ ret' = None
                /\ self_after' = cur
                /\ UNCHANGED <<board, active_player, player_locations,
                               occupied, moves_made>>
           ELSE LET new == forecast_move(cur, move)
                IN  /\ raised' = FALSE
                    /\ ret' = new
                    /\ self_after' = SelfAfterForecast(cur, move)
                    /\ board' = new.board
                    /\ active_player' = new.active_player
                    /\ player_locations' = new.player_locations
                    /\ occupied' = occupied \cup {move}
                    /\ moves_made' =
                           [moves_made EXCEPT ![active_player] = @ + 1]

Next ==
    \/ GetLegalMoves
    \/ ForecastMove
    \/ TerminalTest
    \/ MinValue
    \/ MaxValue
    \/ MinimaxDecision

Spec == Init /\ [][Next]_vars

\* ------------------------------------------------------------------------
\* Properties of GameState

\* the cells of the board, as (column, row) pairs
Cells == Cols \X Rows

\* the open cells of a GameState's board
OpenCells(s) == { c \in Cells : s.board[c[1]][c[2]] = 0 }

\* the last call was a forecast_move that returned a state
Forecasted == op = "forecast_move" /\ ~ raised

\* the last call was `name`, made on a state whose active player is placed
\* (placed = TRUE) or unplaced (placed = FALSE)
CalledWithActive(name, placed) ==
    /\ op = name
    /\ (pre.player_locations[pre.active_player] # None) = placed

\* C1: forecast_move(m) on a legal move m returns a state whose board is the
\* parent's with exactly cell m newly blocked, where the mover (the parent's
\* active player) is at m, the other player is where it was, and the active
\* player has flipped; nothing else differs.
C1_ForecastEffect ==
    op = "forecast_move" /\ arg_move \in Range(get_legal_moves(pre)) =>
        LET mover == pre.active_player
            other == 1 - pre.active_player
        IN  /\ ~ raised
            /\ DOMAIN ret = DOMAIN pre
            /\ OpenCells(pre) \ OpenCells(ret) = {arg_move}
            /\ OpenCells(ret) \subseteq OpenCells(pre)
            /\ \A c \in Cells \ {arg_move} : ret.board[c[1]][c[2]] = pre.board[c[1]][c[2]]
            /\ ret.board[arg_move[1]][arg_move[2]] = 1
            /\ ret.player_locations[mover] = arg_move
            /\ ret.player_locations[other] = pre.player_locations[other]
            /\ ret.active_player = other
            /\ cur = ret

\* C1 witness: a placed player has moved along a ray while the other player
\* is placed too
C1_Witness ==
    /\ Forecasted
    /\ pre.player_locations[0] # None
    /\ pre.player_locations[1] # None
    /\ pre.active_player = 1

\* C2: forecast_move on a coordinate pair that is not in get_legal_moves()
\* (blocked, open but not reachable, or off the board) raises the
\* illegal-move error and yields no successor state.
C2_IllegalMoveRaises ==
    op = "forecast_move" /\ arg_move \notin Range(get_legal_moves(pre)) =>
        /\ raised
        /\ ret = None
        /\ cur = pre

\* C2 witness: the rejected move is an open cell of the board that no ray
\* from the active player's position reaches
C2_Witness ==
    /\ op = "forecast_move"
    /\ raised
    /\ arg_move \in OpenCells(pre)
    /\ pre.player_locations[pre.active_player] # None

\* C3: every element of get_legal_moves() is a cell of the board, column in
\* [0, xlim) and row in [0, ylim), that is open on the state's board.
C3_LegalMovesOpenOnBoard ==
    op = "get_legal_moves" =>
        \A i \in 1 .. Len(ret) :
            /\ ret[i][1] \in 0 .. (xlim - 1)
            /\ ret[i][2] \in 0 .. (ylim - 1)
            /\ board[ret[i][1]][ret[i][2]] = 0

\* C3 witness: legal moves of a placed player next to a closed cell that is
\* on one of its rays
C3_Witness ==
    /\ CalledWithActive("get_legal_moves", TRUE)
    /\ ret # <<>>
    /\ \E i \in 1 .. Len(rays) :
           LET p == pre.player_locations[pre.active_player]
               c == <<p[1] + rays[i][1], p[2] + rays[i][2]>>
           IN  c \in Cells \ OpenCells(pre)

\* c comes before d row by row from the top, by increasing column in a row
RowMajorBefore(c, d) == c[2] < d[2] \/ (c[2] = d[2] /\ c[1] < d[1])

\* C4: with the active player unplaced, get_legal_moves() is exactly the
\* open cells, each once, row by row from the top and by increasing column
\* within a row; in the initial state it is (0,0),(1,0),(2,0),(0,1),(1,1).
C4_UnplacedLegalMoves ==
    CalledWithActive("get_legal_moves", FALSE) =>
        /\ Range(ret) = OpenCells(pre)
        /\ \A i, j \in 1 .. Len(ret) : i < j => RowMajorBefore(ret[i], ret[j])
        /\ (pre = NewGameState =>
               ret = << <<0, 0>>, <<1, 0>>, <<2, 0>>, <<0, 1>>, <<1, 1>> >>)

\* C4 witness: the second player asks for its first move
C4_Witness ==
    /\ CalledWithActive("get_legal_moves", FALSE)
    /\ pre.active_player = 1
    /\ Len(ret) = 4

\* the 8 compass directions in the order the rays are to be listed
CompassOrder == << <<1, 0>>, <<1, -1>>, <<0, -1>>, <<-1, -1>>,
                   <<-1, 0>>, <<-1, 1>>, <<0, 1>>, <<1, 1>> >>

\* the cell at distance k from p in direction d
Step(p, d, k) == <<p[1] + k * d[1], p[2] + k * d[2]>>

\* every cell at distance 1 .. k from p in direction d is an open cell
ClearTo(s, p, d, k) == \A j \in 1 .. k : Step(p, d, j) \in OpenCells(s)

\* how far one can go from p in direction d over open cells
Reach(s, p, d) ==
    Cardinality({ k \in 1 .. (xlim + ylim) : ClearTo(s, p, d, k) })

\* C5: with the active player placed at p, get_legal_moves() is exactly the
\* open cells on the 8 compass rays from p with only open cells in between,
\* each once, ray by ray in the order (+col), (+col,-row), (-row),
\* (-col,-row), (-col), (-col,+row), (+row), (+col,+row) and by increasing
\* distance within a ray.
C5_PlacedLegalMoves ==
    CalledWithActive("get_legal_moves", TRUE) =>
        LET p == pre.player_locations[pre.active_player]
        IN  /\ Range(ret) =
                   { q \in OpenCells(pre) :
                       \E i \in 1 .. 8 : \E k \in 1 .. (xlim + ylim) :
                           q = Step(p, CompassOrder[i], k)
                           /\ ClearTo(pre, p, CompassOrder[i], k) }
            /\ \A i, j \in 1 .. Len(ret) : i # j => ret[i] # ret[j]
            /\ ret = Flatten([i \in 1 .. 8 |->
                         [k \in 1 .. Reach(pre, p, CompassOrder[i]) |->
                             Step(p, CompassOrder[i], k)]])

\* C5 witness: an open cell lies on a ray behind a closed cell and is left
\* out, while other cells are returned
C5_Witness ==
    /\ CalledWithActive("get_legal_moves", TRUE)
    /\ ret # <<>>
    /\ LET p == pre.player_locations[pre.active_player]
       IN  \E i \in 1 .. 8 : \E k \in 2 .. (xlim + ylim) :
               /\ Step(p, CompassOrder[i], k) \in OpenCells(pre)
               /\ Step(p, CompassOrder[i], k) \notin Range(ret)

\* the state after the first player has moved to (0,0) from the initial
\* state: (0,0) and (2,1) closed, player 1 to move
AfterFirstMoveToOrigin ==
    [board |-> [x \in Cols |-> [y \in Rows |->
                    IF <<x, y>> \in {<<0, 0>>, <<2, 1>>} THEN 1 ELSE 0]],
     active_player |-> 1,
     player_locations |-> (0 :> <<0, 0>> @@ 1 :> None)]

\* C6 as stated: after forecast_move((0,0)) from the initial state,
\* get_legal_moves() is (1,0),(2,0),(1,1),(0,1), the ray order from (0,0).
C6_AsStated ==
    op = "get_legal_moves" /\ pre = AfterFirstMoveToOrigin =>
        ret = << <<1, 0>>, <<2, 0>>, <<1, 1>>, <<0, 1>> >>

\* C6 amended: after forecast_move((0,0)) from the initial state,
\* get_legal_moves() returns the cells reachable by ray from (0,0), as the
\* sequence (1,0),(2,0),(0,1),(1,1) in exactly that order: (0,1) before (1,1).
C6_OpenCellsRowMajor ==
    op = "get_legal_moves" /\ pre = AfterFirstMoveToOrigin =>
        /\ ret = << <<1, 0>>, <<2, 0>>, <<0, 1>>, <<1, 1>> >>
        /\ Range(ret) =
               { q \in OpenCells(pre) :
                   \E i \in 1 .. 8 : \E k \in 1 .. (xlim + ylim) :
                       q = Step(<<0, 0>>, CompassOrder[i], k)
                       /\ ClearTo(pre, <<0, 0>>, CompassOrder[i], k) }

\* C6 witness: get_legal_moves() was called in that state, reached by
\* forecast_move
C6_Witness ==
    /\ op = "get_legal_moves"
    /\ pre = AfterFirstMoveToOrigin
    /\ cur = AfterFirstMoveToOrigin

\* ------------------------------------------------------------------------
\* Properties of the search

\* the last call was min_value or max_value
Evaluated == op \in {"min_value", "max_value"}

\* C7: terminal_test(s) is true exactly when s.get_legal_moves() is empty;
\* it is false in the initial state and whenever the active player is
\* unplaced and some cell is open.
C7_TerminalIffNoMoves ==
    op = "terminal_test" =>
        /\ ret \in BOOLEAN
        /\ ret <=> Len(get_legal_moves(pre)) = 0
        /\ (pre = NewGameState => ret = FALSE)
        /\ (pre.player_locations[pre.active_player] = None /\ OpenCells(pre) # {}
               => ret = FALSE)

\* C7 witness: terminal_test answered true although open cells remain
C7_Witness ==
    /\ op = "terminal_test"
    /\ ret = TRUE
    /\ OpenCells(pre) # {}

\* C8: min_value and max_value return -1, 0 or +1 for every depth, positive,
\* zero or negative; never an infinity.
C8_ValueRange ==
    Evaluated => ret \in {-1, 0, 1}

\* C8 witness: the fold ran over the legal moves and returned a decided value
C8_Witness ==
    /\ op = "min_value"
    /\ arg_depth >= 2
    /\ Len(get_legal_moves(pre)) >= 2
    /\ ret = -1

\* the greatest and the least element of a non-empty set of integers
Greatest(S) == CHOOSE v \in S : \A w \in S : w <= v
Least(S) == CHOOSE v \in S : \A w \in S : v <= w

\* full-tree minimax without cutoff: a max node without moves is worth -1,
\* a min node without moves +1
RECURSIVE FullTreeMax(_), FullTreeMin(_)
FullTreeMax(s) ==
    LET ms == Range(get_legal_moves(s))
    IN  IF ms = {} THEN -1
        ELSE Greatest({ FullTreeMin(forecast_move(s, m)) : m \in ms })

FullTreeMin(s) ==
    LET ms == Range(get_legal_moves(s))
    IN  IF ms = {} THEN 1
        ELSE Least({ FullTreeMax(forecast_move(s, m)) : m \in ms })

\* C9: with a depth of at least the number of open cells, max_value and
\* min_value equal the full-tree minimax value without cutoff, and are not 0.
C9_DeepEqualsFullTree ==
    Evaluated /\ arg_depth >= Cardinality(OpenCells(pre)) =>
        /\ ret # 0
        /\ (op = "max_value" => ret = FullTreeMax(pre))
        /\ (op = "min_value" => ret = FullTreeMin(pre))

\* C9 witness: max_value at the root with a depth equal to the number of
\* open cells
C9_Witness ==
    /\ op = "max_value"
    /\ pre = NewGameState
    /\ arg_depth = Cardinality(OpenCells(pre))

\* the legal moves of s after which the opponent has no legal move
WinningMoves(s) ==
    { m \in Range(get_legal_moves(s)) :
        Len(get_legal_moves(forecast_move(s, m))) = 0 }

\* C10: when some legal move leaves the opponent without a move,
\* minimax_decision(s, 1) returns such a move.
C10_DepthOneTakesWin ==
    op = "minimax_decision" /\ arg_depth = 1 /\ WinningMoves(pre) # {} =>
        ret \in WinningMoves(pre)

\* C10 witness: the first legal move does not win and a later one does
C10_Witness ==
    /\ op = "minimax_decision"
    /\ arg_depth = 1
    /\ WinningMoves(pre) # {}
    /\ get_legal_moves(pre)[1] \notin WinningMoves(pre)

\* the value minimax_decision(s, depth) gives the i-th legal move of s
MoveValue(s, depth, i) ==
    min_value(forecast_move(s, get_legal_moves(s)[i]), depth - 1)

\* the positions in get_legal_moves(s) of the moves of greatest value
BestPositions(s, depth) ==
    LET n == Len(get_legal_moves(s))
    IN  { i \in 1 .. n : \A j \in 1 .. n : MoveValue(s, depth, j) <= MoveValue(s, depth, i) }

\* C11: on a non-terminal state minimax_decision returns a legal move: the
\* first one, in the order of get_legal_moves(), whose value
\* min_value(forecast_move(m), depth - 1) is the greatest over all legal
\* moves; a later move of equal value does not replace it.
C11_FirstBestMove ==
    op = "minimax_decision" /\ get_legal_moves(pre) # <<>> =>
        /\ ret \in Range(get_legal_moves(pre))
        /\ ret = get_legal_moves(pre)[Least(BestPositions(pre, arg_depth))]

\* C11 witness: several moves, but not all, share the greatest value
C11_Witness ==
    /\ op = "minimax_decision"
    /\ get_legal_moves(pre) # <<>>
    /\ Cardinality(BestPositions(pre, arg_depth)) >= 2
    /\ Cardinality(BestPositions(pre, arg_depth)) < Len(get_legal_moves(pre))

\* C13: the terminal test comes before the depth cutoff: on a terminal state
\* max_value is -1 and min_value is +1 for every depth, also depth <= 0; on
\* a non-terminal state with depth <= 0 both are 0.
C13_TerminalBeforeCutoff ==
    Evaluated =>
        /\ (get_legal_moves(pre) = <<>> /\ op = "max_value" => ret = -1)
        /\ (get_legal_moves(pre) = <<>> /\ op = "min_value" => ret = 1)
        /\ (get_legal_moves(pre) # <<>> /\ arg_depth <= 0 => ret = 0)

\* C13 witness: max_value on a terminal state with a negative depth
C13_Witness ==
    /\ op = "max_value"
    /\ get_legal_moves(pre) = <<>>
    /\ arg_depth < 0
    /\ ret = -1

\* C14: on a terminal state minimax_decision returns None, for any depth,
\* and raises nothing.
C14_TerminalDecisionIsNone ==
    op = "minimax_decision" /\ get_legal_moves(pre) = <<>> =>
        /\ ret = None
        /\ ~ raised

\* C14 witness: minimax_decision on a terminal state with a positive depth
C14_Witness ==
    /\ op = "minimax_decision"
    /\ get_legal_moves(pre) = <<>>
    /\ arg_depth > 0
    /\ ret = None

Corner == <<xlim - 1, ylim - 1>>

\* the cells of the board open at the start
StartCells == Cells \ {Corner}

\* the moves made so far on the line of play
Plies == moves_made[0] + moves_made[1]

\* C15: every cell a player occupies or has occupied, and the corner cell
\* closed at the start, is closed in the held state and in every later one:
\* no forecast_move opens a closed cell.
C15_ClosedStaysClosed ==
    /\ \A c \in occupied \cup {Corner} : c \in Cells /\ board[c[1]][c[2]] = 1
    /\ \A p \in {0, 1} :
           player_locations[p] # None =>
               /\ player_locations[p] \in occupied
               /\ board[player_locations[p][1]][player_locations[p][2]] = 1
    /\ (Forecasted =>
           \A c \in Cells : pre.board[c[1]][c[2]] = 1 => board[c[1]][c[2]] = 1)

\* C15 witness: a player has left a cell, which is still closed
C15_Witness ==
    /\ Forecasted
    /\ \E c \in occupied :
           /\ c # player_locations[0]
           /\ c # player_locations[1]
           /\ c # Corner
           /\ board[c[1]][c[2]] = 1

\* C16: a player's location is None exactly when it has made no move on
\* the line of play; a placed player never becomes unplaced.
C16_UnplacedIffNoMoves ==
    /\ \A p \in {0, 1} : (player_locations[p] = None) <=> (moves_made[p] = 0)
    /\ (Forecasted =>
           \A p \in {0, 1} :
               pre.player_locations[p] # None => player_locations[p] # None)

\* C16 witness: after the first move one player is placed, the other not
C16_Witness ==
    /\ Forecasted
    /\ moves_made[0] = 1
    /\ moves_made[1] = 0
    /\ player_locations[0] # None
    /\ player_locations[1] = None

\* C17: a line of play has at most xlim * ylim - 1 moves (5), each closing
\* one more cell, the players alternating from player 0 on; after that many
\* moves the state is terminal.  The chain of nested forecast_move calls of
\* min_value and max_value is such a line of play, so it is no longer.
C17_PlayEndsWithinOpenCells ==
    /\ Plies <= xlim * ylim - 1
    /\ Plies + Cardinality(OpenCells(cur)) = Cardinality(StartCells)
    /\ active_player = Plies % 2
    /\ moves_made[1] <= moves_made[0]
    /\ moves_made[0] <= moves_made[1] + 1
    /\ (Forecasted => pre.active_player # active_player)
    /\ (Plies = xlim * ylim - 1 => get_legal_moves(cur) = <<>>)

\* C17 witness: a line of play that used every cell has ended
C17_Witness ==
    /\ Forecasted
    /\ Plies = 5
    /\ get_legal_moves(cur) = <<>>

\* C18: a value other than 0 returned for some depth is returned for every
\* greater depth too, by max_value and by min_value.
C18_DecidedValueStable ==
    Evaluated /\ ret # 0 =>
        \A d \in Depths :
            arg_depth <= d =>
                /\ (op = "max_value" => max_value(pre, d) = ret)
                /\ (op = "min_value" => min_value(pre, d) = ret)

\* C18 witness: max_value undecided at one depth, decided at the next, on a
\* state that has legal moves, with greater depths left to compare
C18_Witness ==
    /\ op = "max_value"
    /\ ret # 0
    /\ get_legal_moves(pre) # <<>>
    /\ arg_depth < MaxDepth
    /\ max_value(pre, arg_depth - 1) = 0

\* C19: when both players are placed they are on different cells.
C19_PlayersApart ==
    player_locations[0] # None /\ player_locations[1] # None =>
        player_locations[0] # player_locations[1]

\* C19 witness: both players are placed, the second on a cell a ray from
\* the first one's cell reaches
C19_Witness ==
    /\ Forecasted
    /\ player_locations[0] # None
    /\ player_locations[1] # None
    /\ \E i \in 1 .. 8 : \E k \in 1 .. (xlim + ylim) :
           player_locations[1] = Step(player_locations[0], CompassOrder[i], k)

====
